---- MODULE Spec2Model ----
(***************************************************************************)
(* A model of citekit's resolution engine (citekit/client.py), its map     *)
(* model (citekit/models.py) and its resolver strategies                   *)
(* (citekit/resolvers/*.py).                                               *)
(*                                                                         *)
(* Optional values (Python's None) are sequences of length at most one:    *)
(* None is <<>> and a present value v is <<v>>.                            *)
(***************************************************************************)
EXTENDS Integers, Sequences, FiniteSets, TLC

VARIABLES
    files,              \* the source files that exist, each with its digest
    mapper,             \* CiteKitClient._mapper is configured
    concurrency_limit,  \* the width asyncio.Semaphore was built with
    store,              \* _storage_dir: resource_id -> optional stored map
    sem_value,          \* asyncio.Semaphore._value
    waiters,            \* asyncio.Semaphore._waiters, a FIFO of ingest calls
    ready,              \* waiters whose future is done, in the loop's ready order
    pc,                 \* where each ingest call is suspended
    call,               \* the arguments each suspended ingest call holds
    provided,           \* the digests generate_map has returned a map for
    outdir,             \* _output_dir: the artifacts, each a name and a content
    resolved,           \* the nodes resolve has extracted, each with its path
    last                \* the outcome of the operation that completed last

vars == <<files, mapper, concurrency_limit, store, sem_value, waiters, ready, pc,
          call, provided, outdir, resolved, last>>

----------------------------------------------------------------------------
(* Bounds *)

MaxTasks == 3
MaxLimit == 2
NumDigests == 2
MaxNodes == 3

----------------------------------------------------------------------------
(* Values *)

None == <<>>
Some(v) == <<v>>
Get(o) == o[1]

Min(a, b) == IF a <= b THEN a ELSE b

Tasks == 1..MaxTasks
Stems == {"a", "b"}
RIDs == Stems
NoId == "-"
Digests == 1..NumDigests
Missing == 0

\* A path names a file by its stem; digest is the SHA-256 of the bytes at
\* the path, Missing when no file is there.
Paths == [stem : Stems, digest : 0..NumDigests]
Dangling == [stem |-> "a", digest |-> Missing]
\* Every file of every content, as one directory per content.
AllFiles == [stem : Stems, digest : Digests]
\* Byte-identical files under different names.
TwinFiles == [stem : Stems, digest : {1}]

\* st_size of a file: equal bytes have equal size.
SizeOf(d) == 100 + d

ProviderErrors == {"ProviderError"}

\* Store files that are no map: text that json.loads rejects, and JSON that
\* shows a digest in its metadata but that ResourceMap.model_validate rejects.
CorruptEntries ==
    {[corrupt |-> "unreadable", source_hash |-> Missing]}
        \cup {[corrupt |-> "schema", source_hash |-> d] : d \in Digests}
IsMap(entry) == "corrupt" \notin DOMAIN entry

\* The node trees the provider answers with.  A tree holds nodes 1..n:
\* roots is ResourceMap.nodes, children[i] is Node.children of node i.
EmptyTree == [n |-> 0, roots |-> <<>>, children |-> <<>>, id |-> <<>>, loc |-> <<>>]
ProviderTrees == {EmptyTree}

----------------------------------------------------------------------------
(* The store *)

\* ingest's scan of the store: the stored maps whose metadata digest is h.
\* glob() enumerates in no fixed order, so any of them may be the first.
\* An entry that cannot be read as a map raises inside the try and is
\* skipped, whatever digest it shows.
FindIn(st, h) ==
    {k \in RIDs : /\ st[k] # None
                  /\ IsMap(Get(st[k]))
                  /\ Get(st[k]).metadata # None
                  /\ Get(Get(st[k]).metadata).source_hash = h}

FindMapByHash(h) == FindIn(store, h)

\* _save_map: the file is named after the map's own resource_id.
SaveMap(m) == [store EXCEPT ![m.resource_id] = Some(m)]

\* get_map
GetMapIn(st, rid) ==
    IF st[rid] = None
    THEN [outcome |-> "FileNotFoundError", map |-> None]
    ELSE IF ~IsMap(Get(st[rid]))
    THEN [outcome |-> "ValueError", map |-> None]
    ELSE [outcome |-> "ok", map |-> st[rid]]

GetMapResult(rid) == GetMapIn(store, rid)

\* list_maps
ListMapsResult == {k \in RIDs : store[k] # None}

----------------------------------------------------------------------------
(* asyncio.Semaphore, as CiteKitClient uses it *)

Locked == sem_value = 0 \/ Len(waiters) > 0

InReady(t, rdy) == \E i \in 1..Len(rdy) : rdy[i] = t

\* A release that wakes nobody.
WakeUpNext_Nobody(v, ws, rdy) == [value |-> v, ready |-> rdy]

\* _wake_up_next after the counter became v: the first waiter whose future
\* is not done takes the permit and is scheduled.
WakeUpNext(v, ws, rdy) ==
    LET cand == {i \in 1..Len(ws) : ~InReady(ws[i], rdy)} IN
    IF cand = {}
    THEN [value |-> v, ready |-> rdy]
    ELSE LET i == CHOOSE i \in cand : \A j \in cand : i <= j
         IN [value |-> v - 1, ready |-> Append(rdy, ws[i])]

\* release()
Release == WakeUpNext(sem_value + 1, waiters, ready)

Remove(s, t) == SelectSeq(s, LAMBDA x : x # t)

----------------------------------------------------------------------------
(* ingest *)

\* What an operation returned or raised: "ok", "hit" (a map served from the
\* store) or the class of the exception.  rid is the resource_id it was asked
\* for, where it completed without suspending.
Outcome(op, outcome, rid, map) ==
    [op |-> op, outcome |-> outcome, rid |-> rid, map |-> map,
     nid |-> NoId, virtual |-> FALSE, output_path |-> None, address |-> <<>>,
     available |-> <<>>, attempts |-> 0]

\* A cache hit that aliases the cached map to the requested id.
CacheHit_Aliasing(rid, k) ==
    LET m == IF rid = NoId THEN Get(store[k])
             ELSE [Get(store[k]) EXCEPT !.resource_id = rid]
    IN /\ last' = Outcome("ingest", "hit", rid, Some(m))
       /\ store' = SaveMap(m)
       /\ UNCHANGED <<sem_value, waiters, ready, pc, call, provided>>

\* The cache hit: the stored map found is returned as it is.
CacheHit(rid, k) ==
    /\ last' = Outcome("ingest", "hit", rid, store[k])
    /\ UNCHANGED <<store, sem_value, waiters, ready, pc, call, provided>>

\* An entry into the provider call that takes no slot of the pool.
Acquire_Ungated(t) ==
    /\ pc' = [pc EXCEPT ![t] = "inflight"]
    /\ UNCHANGED <<sem_value, waiters>>

\* An acquire whose queue is a stack.
Acquire_Lifo(t) ==
    IF ~Locked
    THEN /\ sem_value' = sem_value - 1
         /\ pc' = [pc EXCEPT ![t] = "inflight"]
         /\ UNCHANGED waiters
    ELSE /\ waiters' = <<t>> \o waiters
         /\ pc' = [pc EXCEPT ![t] = "waiting"]
         /\ UNCHANGED sem_value

\* async with self._semaphore, on entry: a free slot is taken at once,
\* otherwise the call joins the queue and suspends.
Acquire(t) ==
    IF ~Locked
    THEN /\ sem_value' = sem_value - 1
         /\ pc' = [pc EXCEPT ![t] = "inflight"]
         /\ UNCHANGED waiters
    ELSE /\ waiters' = Append(waiters, t)
         /\ pc' = [pc EXCEPT ![t] = "waiting"]
         /\ UNCHANGED sem_value

\* ingest up to its first suspension point: the mapper and file checks, the
\* digest, the cache scan, and the acquire of the admission gate.
IngestStart(t, path, rid) ==
    /\ pc[t] = "idle"
    /\ \A u \in Tasks : u < t => pc[u] # "idle"
    /\ IF ~mapper
       THEN /\ last' = Outcome("ingest", "RuntimeError", rid, None)
            /\ UNCHANGED <<store, sem_value, waiters, ready, pc, call, provided>>
       ELSE IF path.digest = Missing
       THEN /\ last' = Outcome("ingest", "FileNotFoundError", rid, None)
            /\ UNCHANGED <<store, sem_value, waiters, ready, pc, call, provided>>
       ELSE IF FindMapByHash(path.digest) # {}
       THEN \E k \in FindMapByHash(path.digest) : CacheHit(rid, k)
       ELSE /\ call' = [call EXCEPT ![t] =
                          Some([path |-> path,
                                resource_id |-> IF rid = NoId THEN path.stem ELSE rid])]
            /\ Acquire(t)
            /\ UNCHANGED <<store, ready, provided, last>>
    /\ UNCHANGED <<files, mapper, concurrency_limit, outdir, resolved>>

\* A waiter whose future is done runs again: it leaves the queue and enters
\* the provider call.
IngestResume(t) ==
    /\ ready # <<>>
    /\ t = Head(ready)
    /\ pc[t] = "waiting"
    /\ LET ws == Remove(waiters, t)
           rd == Tail(ready)
           w  == IF sem_value > 0
                 THEN WakeUpNext(sem_value, ws, rd)
                 ELSE [value |-> sem_value, ready |-> rd]
       IN /\ waiters' = ws
          /\ ready' = w.ready
          /\ sem_value' = w.value
    /\ pc' = [pc EXCEPT ![t] = "inflight"]
    /\ UNCHANGED <<files, mapper, concurrency_limit, store, call, provided, outdir,
                   resolved, last>>

\* A return that saves the provider's map before the digest and size are
\* merged into its metadata.
ProviderReturn_SaveFirst(t, r, nodes) ==
    /\ pc[t] = "inflight"
    /\ LET c == Get(call[t])
           h == c.path.digest
           m == [resource_id |-> r,
                 source_path |-> c.path,
                 nodes |-> nodes,
                 metadata |-> Some([source_hash |-> h, source_size |-> SizeOf(h)])]
           w == Release
       IN /\ sem_value' = w.value
          /\ ready' = w.ready
          /\ store' = SaveMap([m EXCEPT !.metadata = None])
          /\ provided' = provided \cup {h}
          /\ last' = Outcome("ingest", "ok", NoId, Some(m))
    /\ pc' = [pc EXCEPT ![t] = "idle"]
    /\ call' = [call EXCEPT ![t] = None]
    /\ UNCHANGED <<files, mapper, concurrency_limit, waiters, outdir, resolved>>

\* generate_map returns a map: the slot is released, digest and size are
\* merged into the metadata, the map is saved and returned.
ProviderReturn(t, r, nodes) ==
    /\ pc[t] = "inflight"
    /\ LET c == Get(call[t])
           h == c.path.digest
           m == [resource_id |-> r,
                 source_path |-> c.path,
                 nodes |-> nodes,
                 metadata |-> Some([source_hash |-> h, source_size |-> SizeOf(h)])]
           w == Release
       IN /\ sem_value' = w.value
          /\ ready' = w.ready
          /\ store' = SaveMap(m)
          /\ provided' = provided \cup {h}
          /\ last' = Outcome("ingest", "ok", NoId, Some(m))
    /\ pc' = [pc EXCEPT ![t] = "idle"]
    /\ call' = [call EXCEPT ![t] = None]
    /\ UNCHANGED <<files, mapper, concurrency_limit, waiters, outdir, resolved>>

\* A failure that keeps the slot.
ProviderFail_NoRelease(t, e) ==
    /\ pc[t] = "inflight"
    /\ last' = Outcome("ingest", e, NoId, None)
    /\ pc' = [pc EXCEPT ![t] = "idle"]
    /\ call' = [call EXCEPT ![t] = None]
    /\ UNCHANGED <<files, mapper, concurrency_limit, store, sem_value, waiters, ready,
                   provided, outdir, resolved>>

\* generate_map raises: the slot is released and the error propagates.
ProviderFail(t, e) ==
    /\ pc[t] = "inflight"
    /\ LET c == Get(call[t])
           w == Release
       IN /\ sem_value' = w.value
          /\ ready' = w.ready
          /\ last' = Outcome("ingest", e, NoId, None)
    /\ pc' = [pc EXCEPT ![t] = "idle"]
    /\ call' = [call EXCEPT ![t] = None]
    /\ UNCHANGED <<files, mapper, concurrency_limit, store, waiters, provided, outdir,
                   resolved>>

----------------------------------------------------------------------------
(* Location, Node and the node tree (models.py) *)

\* Times are counted in half seconds and bbox components in hundredths, so
\* that the fractional values the code truncates or rounds are there.
Loc(modality, pages, lines, start, end, bbox, virtual_address) ==
    [modality |-> modality, pages |-> pages, lines |-> lines, start |-> start,
     end |-> end, bbox |-> bbox, virtual_address |-> virtual_address]

\* The tree whose node i hangs under node parent[i] (0: the root list),
\* siblings in index order.
TreeFrom(parent, id, loc) ==
    LET n == Len(parent)
        under(i) == SelectSeq([j \in 1..n |-> j], LAMBDA j : parent[j] = i)
    IN [n |-> n, roots |-> under(0), children |-> [i \in 1..n |-> under(i)],
        id |-> id, loc |-> loc]

NodeAt(tr, i) == [id |-> tr.id[i], loc |-> tr.loc[i]]

\* get_node's find(nodes): the node itself, then its children, then the
\* next sibling; the first match is returned.
RECURSIVE Find(_, _, _)
\* A search that tries all the siblings before any of their children.
Find_SiblingsFirst(tr, nodes, node_id) ==
    IF nodes = <<>> THEN None
    ELSE LET here == SelectSeq(nodes, LAMBDA n : tr.id[n] = node_id) IN
         IF here # <<>> THEN Some(Head(here))
         ELSE LET found == Find(tr, tr.children[Head(nodes)], node_id) IN
              IF found # None THEN found
              ELSE Find(tr, Tail(nodes), node_id)

Find(tr, nodes, node_id) ==
    IF nodes = <<>> THEN None
    ELSE LET node == Head(nodes) IN
         IF tr.id[node] = node_id THEN Some(node)
         ELSE LET found == Find(tr, tr.children[node], node_id) IN
              IF found # None THEN found
              ELSE Find(tr, Tail(nodes), node_id)

GetNode(tr, node_id) == Find(tr, tr.roots, node_id)

\* list_node_ids' collect(nodes)
RECURSIVE Collect(_, _)
Collect(tr, nodes) ==
    IF nodes = <<>> THEN <<>>
    ELSE <<tr.id[Head(nodes)]>> \o Collect(tr, tr.children[Head(nodes)])
                                \o Collect(tr, Tail(nodes))

\* A listing of the top-level nodes only.
ListNodeIds_TopLevel(tr) == [i \in 1..Len(tr.roots) |-> tr.id[tr.roots[i]]]

ListNodeIds(tr) == Collect(tr, tr.roots)

----------------------------------------------------------------------------
(* build_address (address.py); an address is its sequence of tokens *)

Abs(n) == IF n < 0 THEN -n ELSE n

\* str() of an integer: the sign is a token of its own.
NumTok(n) == IF n < 0 THEN <<"-", ToString(-n)>> ELSE <<ToString(n)>>

\* {n:02d}
Pad2(n) == IF n < 10 THEN "0" \o ToString(n) ELSE ToString(n)

RECURSIVE Join(_, _)
Join(parts, sep) ==
    IF parts = <<>> THEN <<>>
    ELSE IF Len(parts) = 1 THEN Head(parts)
    ELSE Head(parts) \o <<sep>> \o Join(Tail(parts), sep)

Range(a, b) == [i \in 1..(IF b >= a THEN b - a + 1 ELSE 0) |-> a + i - 1]

ModalityToScheme(modality) ==
    IF modality = "document" THEN "doc" ELSE modality

\* _format_time of t half seconds
FormatTime(t) ==
    IF t % 2 = 0
    THEN LET seconds == t \div 2 IN
         IF seconds >= 3600
         THEN <<Pad2(seconds \div 3600), ":", Pad2((seconds % 3600) \div 60), ":",
                Pad2(seconds % 60)>>
         ELSE IF seconds >= 60
         THEN <<Pad2(seconds \div 60), ":", Pad2(seconds % 60)>>
         ELSE NumTok(seconds)
    ELSE (IF t < 0 THEN <<"-">> ELSE <<>>) \o <<ToString(Abs(t) \div 2), ".", "5">>

\* {v:g} of v hundredths
FormatG(v) ==
    LET whole == Abs(v) \div 100
        frac  == Abs(v) % 100
    IN (IF v < 0 THEN <<"-">> ELSE <<>>) \o <<ToString(whole)>> \o
       (IF frac = 0 THEN <<>>
        ELSE IF frac % 10 = 0 THEN <<".", ToString(frac \div 10)>>
        ELSE <<".", Pad2(frac)>>)

\* A pages fragment that looks at the endpoints only.
PagesFragment_Endpoints(pages) ==
    LET pages_sorted == SortSeq(pages, LAMBDA a, b : a < b)
        first == pages_sorted[1]
        final == pages_sorted[Len(pages_sorted)]
    IN IF Len(pages_sorted) = final - first + 1
       THEN <<"pages", "=">> \o NumTok(first) \o <<"-">> \o NumTok(final)
       ELSE <<"pages", "=">> \o
            Join([i \in 1..Len(pages_sorted) |-> NumTok(pages_sorted[i])], ",")

\* The pages fragment of a non-empty page list: range notation when the
\* sorted list is list(range(first, last + 1)), a comma list otherwise.
PagesFragment(pages) ==
    LET pages_sorted == SortSeq(pages, LAMBDA a, b : a < b)
        first == pages_sorted[1]
        final == pages_sorted[Len(pages_sorted)]
    IN IF pages_sorted = Range(first, final)
       THEN <<"pages", "=">> \o NumTok(first) \o <<"-">> \o NumTok(final)
       ELSE <<"pages", "=">> \o
            Join([i \in 1..Len(pages_sorted) |-> NumTok(pages_sorted[i])], ",")

BuildAddress(resource_id, location) ==
    IF location.modality = "virtual"
    THEN [ok |-> TRUE,
          address |-> IF location.virtual_address # None
                      THEN Get(location.virtual_address)
                      ELSE <<"virtual", "://", resource_id>>]
    ELSE IF location.pages # None /\ Len(Get(location.pages)) = 0
    THEN [ok |-> FALSE, address |-> <<>>]
    ELSE
    LET pages_part ==
            IF location.pages = None THEN <<>>
            ELSE << PagesFragment(Get(location.pages)) >>
        lines_part ==
            IF location.lines = None THEN <<>>
            ELSE << <<"lines", "=">> \o NumTok(Get(location.lines)[1]) \o <<"-">>
                    \o NumTok(Get(location.lines)[2]) >>
        time_part ==
            IF location.start = None \/ location.end = None THEN <<>>
            ELSE << <<"t", "=">> \o FormatTime(Get(location.start)) \o <<"-">>
                    \o FormatTime(Get(location.end)) >>
        bbox_part ==
            IF location.bbox = None THEN <<>>
            ELSE << <<"bbox", "=">> \o
                    Join([i \in 1..4 |-> FormatG(Get(location.bbox)[i])], ",") >>
        fragment == Join(pages_part \o lines_part \o time_part \o bbox_part, "&")
        head == <<ModalityToScheme(location.modality), "://", resource_id>>
    IN [ok |-> TRUE,
        address |-> IF fragment # <<>> THEN head \o <<"#">> \o fragment ELSE head]

----------------------------------------------------------------------------
(* parse_address (address.py), over the same tokens *)

\* The numerals the model reads back: int() and float() of a token.
MaxNumeral == 130

Has(toks, tok) == \E i \in 1..Len(toks) : toks[i] = tok

\* str.split(sep, 1) where sep occurs: what is before and after the first.
SplitFirst(toks, sep) ==
    LET i == CHOOSE i \in 1..Len(toks) :
                 toks[i] = sep /\ \A j \in 1..(i - 1) : toks[j] # sep
    IN <<SubSeq(toks, 1, i - 1), SubSeq(toks, i + 1, Len(toks))>>

\* str.split(sep): always at least one part, empty parts kept.
RECURSIVE Split(_, _)
Split(toks, sep) ==
    IF ~Has(toks, sep) THEN <<toks>>
    ELSE <<SplitFirst(toks, sep)[1]>> \o Split(SplitFirst(toks, sep)[2], sep)

Failed == [ok |-> FALSE, value |-> 0]
Parsed(v) == [ok |-> TRUE, value |-> v]

\* A run of decimal digits, leading zeros allowed.
IsDigits(tok) == \E n \in 0..MaxNumeral : tok \in {ToString(n), Pad2(n)}
DigitsValue(tok) == CHOOSE n \in 0..MaxNumeral : tok \in {ToString(n), Pad2(n)}

\* int(s): an optional sign and digits; anything else is a ValueError.
ParseInt(toks) ==
    IF Len(toks) = 1 /\ IsDigits(toks[1]) THEN Parsed(DigitsValue(toks[1]))
    ELSE IF Len(toks) = 2 /\ toks[1] = "-" /\ IsDigits(toks[2])
    THEN Parsed(-DigitsValue(toks[2]))
    ELSE Failed

\* The digits after a decimal point, in hundredths ("5" is 50, "05" is 5).
IsFraction(tok) ==
    \E h \in 0..99 : tok = (IF h % 10 = 0 THEN ToString(h \div 10) ELSE Pad2(h))
FractionValue(tok) ==
    CHOOSE h \in 0..99 : tok = (IF h % 10 = 0 THEN ToString(h \div 10) ELSE Pad2(h))

\* float(s), in units of 1/scale (scale 2: half seconds, scale 100:
\* hundredths), for the decimals that are whole in that unit.
ParseFloat(toks, scale) ==
    LET negative == Len(toks) >= 1 /\ toks[1] = "-"
        digits == IF negative THEN Tail(toks) ELSE toks
        sign == IF negative THEN -1 ELSE 1
    IN IF Len(digits) = 1 /\ IsDigits(digits[1])
       THEN Parsed(sign * scale * DigitsValue(digits[1]))
       ELSE IF /\ Len(digits) = 3 /\ IsDigits(digits[1]) /\ digits[2] = "."
               /\ IsFraction(digits[3])
               /\ (FractionValue(digits[3]) * scale) % 100 = 0
       THEN Parsed(sign * (scale * DigitsValue(digits[1])
                           + (FractionValue(digits[3]) * scale) \div 100))
       ELSE Failed

\* _parse_time, in half seconds
ParseTime(time_str) ==
    LET parts == Split(time_str, ":") IN
    IF Has(time_str, ":") /\ Len(parts) = 3
    THEN LET h == ParseInt(parts[1])
             m == ParseInt(parts[2])
             sec == ParseFloat(parts[3], 2)
         IN IF h.ok /\ m.ok /\ sec.ok
            THEN Parsed(2 * (h.value * 3600 + m.value * 60) + sec.value)
            ELSE Failed
    ELSE IF Has(time_str, ":") /\ Len(parts) = 2
    THEN LET m == ParseInt(parts[1])
             sec == ParseFloat(parts[2], 2)
         IN IF m.ok /\ sec.ok THEN Parsed(2 * m.value * 60 + sec.value) ELSE Failed
    ELSE ParseFloat(time_str, 2)

SchemeToModality(scheme) == IF scheme = "doc" THEN "document" ELSE scheme
Schemes == {"doc", "video", "audio", "image", "text", "virtual"}
Delimiters == {"://", "#", "&", "=", "-", ",", ".", ":"}

\* dict(part.split("=", 1) for part in fragment.split("&") if "=" in part):
\* the value of the last part with that key, None when there is none.
Param(fragment, key) ==
    LET parts == SelectSeq(Split(fragment, "&"), LAMBDA part : Has(part, "="))
        with == SelectSeq(parts, LAMBDA part : SplitFirst(part, "=")[1] = <<key>>)
    IN IF with = <<>> THEN None ELSE Some(SplitFirst(with[Len(with)], "=")[2])

\* An optional field parsed: ok is false where the code raises.
Field(ok, value) == [ok |-> ok, value |-> value]

\* A pages value read by its endpoints only.
ParsePages_Endpoints(page_str) ==
    IF Has(page_str, "-")
    THEN LET p_start == ParseInt(SplitFirst(page_str, "-")[1])
             p_end == ParseInt(SplitFirst(page_str, "-")[2])
         IN IF p_start.ok /\ p_end.ok
            THEN Field(TRUE, Some(<<p_start.value, p_end.value>>))
            ELSE Field(FALSE, None)
    ELSE LET ps == Split(page_str, ",")
             ints == [i \in 1..Len(ps) |-> ParseInt(ps[i])]
         IN IF \A i \in 1..Len(ps) : ints[i].ok
            THEN Field(TRUE, Some([i \in 1..Len(ps) |-> ints[i].value]))
            ELSE Field(FALSE, None)

ParsePages(page_str) ==
    IF Has(page_str, "-")
    THEN LET p_start == ParseInt(SplitFirst(page_str, "-")[1])
             p_end == ParseInt(SplitFirst(page_str, "-")[2])
         IN IF p_start.ok /\ p_end.ok
            THEN Field(TRUE, Some(Range(p_start.value, p_end.value)))
            ELSE Field(FALSE, None)
    ELSE LET ps == Split(page_str, ",")
             ints == [i \in 1..Len(ps) |-> ParseInt(ps[i])]
         IN IF \A i \in 1..Len(ps) : ints[i].ok
            THEN Field(TRUE, Some([i \in 1..Len(ps) |-> ints[i].value]))
            ELSE Field(FALSE, None)

ParseLines(lines_str) ==
    IF Has(lines_str, "-")
    THEN LET l_start == ParseInt(SplitFirst(lines_str, "-")[1])
             l_end == ParseInt(SplitFirst(lines_str, "-")[2])
         IN IF l_start.ok /\ l_end.ok
            THEN Field(TRUE, Some(<<l_start.value, l_end.value>>))
            ELSE Field(FALSE, None)
    ELSE IF Has(lines_str, ",")
    THEN LET ps == Split(lines_str, ",")
             first == ParseInt(ps[1])
             final == ParseInt(ps[Len(ps)])
         IN IF first.ok /\ final.ok
            THEN Field(TRUE, Some(<<first.value, final.value>>))
            ELSE Field(FALSE, None)
    ELSE Field(TRUE, None)

\* The t value: start and end, both None when the value has no "-".
ParseInterval(time_str) ==
    IF Has(time_str, "-")
    THEN LET t_start == ParseTime(SplitFirst(time_str, "-")[1])
             t_end == ParseTime(SplitFirst(time_str, "-")[2])
         IN IF t_start.ok /\ t_end.ok
            THEN Field(TRUE, <<Some(t_start.value), Some(t_end.value)>>)
            ELSE Field(FALSE, <<None, None>>)
    ELSE Field(TRUE, <<None, None>>)

ParseBbox(bbox_str) ==
    LET ps == Split(bbox_str, ",")
        floats == [i \in 1..Len(ps) |-> ParseFloat(ps[i], 100)]
    IN IF Len(ps) = 4 /\ \A i \in 1..4 : floats[i].ok
       THEN Field(TRUE, Some([i \in 1..4 |-> floats[i].value]))
       ELSE Field(FALSE, None)

NoLocation == Loc("", None, None, None, None, None, None)
ParseFailure == [ok |-> FALSE, resource_id |-> <<>>, location |-> NoLocation]
ParseResult(resource_id, location) ==
    [ok |-> TRUE, resource_id |-> resource_id, location |-> location]

\* parse_address: the match of ^(\w+)://([^#]+)(?:#(.+))?$, the scheme, the
\* fragment's parameters.  resource_id is returned as its tokens.
ParseAddress(address) ==
    IF ~(/\ Len(address) >= 3
         /\ address[1] \notin Delimiters
         /\ address[2] = "://"
         /\ address[3] # "#"
         /\ Has(address, "#") => SplitFirst(address, "#")[2] # <<>>)
    THEN ParseFailure
    ELSE
    LET scheme == address[1]
        rest == SubSeq(address, 3, Len(address))
        resource_id == IF Has(rest, "#") THEN SplitFirst(rest, "#")[1] ELSE rest
        fragment == IF Has(rest, "#") THEN SplitFirst(rest, "#")[2] ELSE <<>>
    IN IF scheme \notin Schemes THEN ParseFailure
       ELSE IF scheme = "virtual"
       THEN ParseResult(resource_id,
                        Loc("virtual", None, None, None, None, None, Some(address)))
       ELSE
       LET pages == IF Param(fragment, "pages") = None THEN Field(TRUE, None)
                    ELSE ParsePages(Get(Param(fragment, "pages")))
           lines == IF Param(fragment, "lines") = None THEN Field(TRUE, None)
                    ELSE ParseLines(Get(Param(fragment, "lines")))
           t == IF Param(fragment, "t") = None THEN Field(TRUE, <<None, None>>)
                ELSE ParseInterval(Get(Param(fragment, "t")))
           bbox == IF Param(fragment, "bbox") = None THEN Field(TRUE, None)
                   ELSE ParseBbox(Get(Param(fragment, "bbox")))
       IN IF pages.ok /\ lines.ok /\ t.ok /\ bbox.ok
          THEN ParseResult(resource_id,
                           Loc(SchemeToModality(scheme), pages.value, lines.value,
                               t.value[1], t.value[2], bbox.value, None))
          ELSE ParseFailure

----------------------------------------------------------------------------
(* Resolver strategies (resolvers/*.py) *)

\* The source files resolve reads.
SrcPages == 2
SrcLines == 3

\* An artifact's name: the source's stem, what was extracted, the node id
\* where the name embeds it, the location's discriminator, the extension.
Name(stem, kind, id, discr, ext) ==
    [stem |-> stem, kind |-> kind, id |-> id, discr |-> discr, ext |-> ext]

Exists(out, name) == \E f \in out : f.name = name

\* A file is created or overwritten.
Write(out, name, content) ==
    {f \in out : f.name # name} \cup {[name |-> name, content |-> content]}

Result(outcome, path, attempts, out) ==
    [outcome |-> outcome, path |-> path, attempts |-> attempts, out |-> out]

\* int() of t half seconds
IntSeconds(t) == IF t >= 0 THEN t \div 2 ELSE -((-t) \div 2)

\* {v:.1f} of v hundredths, in tenths (v does not end in 5)
Round1(v) == IF v >= 0 THEN (v + 5) \div 10 ELSE -((5 - v) \div 10)

\* node.id.replace(".", "_")
SafeId(id) == IF id = "s.1" THEN "s_1" ELSE id

\* What ffmpeg may do: each attempt succeeds or fails, and a failed one may
\* leave a partial output file behind.
Ffmpegs == [copy : BOOLEAN, reencode : BOOLEAN, partial : BOOLEAN]
FfmpegOk == [copy |-> TRUE, reencode |-> TRUE, partial |-> FALSE]

\* One run of ffmpeg -y (_extract_clip, _extract_segment).
ExtractClip(out, name, start, duration, copy, succeeds, partial) ==
    IF succeeds
    THEN [ok |-> TRUE, out |-> Write(out, name, <<start, duration, IF copy THEN 1 ELSE 0>>)]
    ELSE [ok |-> FALSE, out |-> IF partial THEN Write(out, name, <<-1>>) ELSE out]

\* A resolver that gives up when the stream copy fails.
TwoAttempts_CopyOnly(out, name, start, duration, x) ==
    LET first == ExtractClip(out, name, start, duration, TRUE, x.copy, x.partial) IN
    IF first.ok THEN Result("ok", Some(name), 1, first.out)
    ELSE Result("CalledProcessError", None, 1, first.out)

\* try stream copy, on CalledProcessError re-encode
TwoAttempts(out, name, start, duration, x) ==
    LET first == ExtractClip(out, name, start, duration, TRUE, x.copy, x.partial) IN
    IF first.ok THEN Result("ok", Some(name), 1, first.out)
    ELSE LET second == ExtractClip(first.out, name, start, duration, FALSE,
                                   x.reencode, x.partial)
         IN IF second.ok THEN Result("ok", Some(name), 2, second.out)
            ELSE Result("CalledProcessError", None, 2, second.out)

\* A resolver that drops only the pages past the end of the document.
DocumentResolve_NoLowerBound(node, source, x) ==
    IF node.loc.pages = None THEN Result("ValueError", None, 0, outdir)
    ELSE IF source \notin files THEN Result("FileNotFoundError", None, 0, outdir)
    ELSE LET pages == Get(node.loc.pages)
             name == Name(source.stem, "pages", "", pages, "pdf")
             kept == SelectSeq(pages, LAMBDA p : p - 1 < SrcPages)
         IN IF Exists(outdir, name) THEN Result("ok", Some(name), 0, outdir)
            ELSE IF Len(kept) = 0 THEN Result("ValueError", None, 1, outdir)
            ELSE Result("ok", Some(name), 1, Write(outdir, name, kept))

DocumentResolve(node, source, x) ==
    IF node.loc.pages = None THEN Result("ValueError", None, 0, outdir)
    ELSE IF source \notin files THEN Result("FileNotFoundError", None, 0, outdir)
    ELSE LET pages == Get(node.loc.pages)
             name == Name(source.stem, "pages", "", pages, "pdf")
             kept == SelectSeq(pages, LAMBDA p : 0 <= p - 1 /\ p - 1 < SrcPages)
         IN IF Exists(outdir, name) THEN Result("ok", Some(name), 0, outdir)
            ELSE IF Len(kept) = 0 THEN Result("ValueError", None, 1, outdir)
            ELSE Result("ok", Some(name), 1, Write(outdir, name, kept))

VideoResolve(node, source, x) ==
    IF node.loc.start = None \/ node.loc.end = None
    THEN Result("ValueError", None, 0, outdir)
    ELSE IF source \notin files THEN Result("FileNotFoundError", None, 0, outdir)
    ELSE LET start == Get(node.loc.start)
             duration == Get(node.loc.end) - start
             name == Name(source.stem, "clip", "",
                          <<IntSeconds(start), IntSeconds(Get(node.loc.end))>>, "suffix")
         IN IF duration <= 0 THEN Result("ValueError", None, 0, outdir)
            ELSE TwoAttempts(outdir, name, start, duration, x)

AudioResolve(node, source, x) ==
    IF node.loc.start = None \/ node.loc.end = None
    THEN Result("ValueError", None, 0, outdir)
    ELSE IF source \notin files THEN Result("FileNotFoundError", None, 0, outdir)
    ELSE LET start == Get(node.loc.start)
             duration == Get(node.loc.end) - start
             name == Name(source.stem, "segment", "",
                          <<IntSeconds(start), IntSeconds(Get(node.loc.end))>>, "suffix")
         IN IF duration <= 0 THEN Result("ValueError", None, 0, outdir)
            ELSE IF Exists(outdir, name) THEN Result("ok", Some(name), 0, outdir)
            ELSE TwoAttempts(outdir, name, start, duration, x)

\* A resolver that looks for the cached crop before it validates the box.
ImageResolve_CacheFirst(node, source, x) ==
    IF node.loc.bbox = None THEN Result("ValueError", None, 0, outdir)
    ELSE IF source \notin files THEN Result("FileNotFoundError", None, 0, outdir)
    ELSE LET bbox == Get(node.loc.bbox)
             name == Name(source.stem, "crop", "",
                          [i \in 1..4 |-> Round1(bbox[i])], "suffix")
         IN IF Exists(outdir, name) THEN Result("ok", Some(name), 0, outdir)
            ELSE IF \E i \in 1..4 : ~(0 <= bbox[i] /\ bbox[i] <= 100)
            THEN Result("ValueError", None, 0, outdir)
            ELSE IF bbox[1] >= bbox[3] \/ bbox[2] >= bbox[4]
            THEN Result("ValueError", None, 0, outdir)
            ELSE Result("ok", Some(name), 1, Write(outdir, name, bbox))

ImageResolve(node, source, x) ==
    IF node.loc.bbox = None THEN Result("ValueError", None, 0, outdir)
    ELSE IF source \notin files THEN Result("FileNotFoundError", None, 0, outdir)
    ELSE LET bbox == Get(node.loc.bbox)
             name == Name(source.stem, "crop", "",
                          [i \in 1..4 |-> Round1(bbox[i])], "suffix")
         IN IF \E i \in 1..4 : ~(0 <= bbox[i] /\ bbox[i] <= 100)
            THEN Result("ValueError", None, 0, outdir)
            ELSE IF bbox[1] >= bbox[3] \/ bbox[2] >= bbox[4]
            THEN Result("ValueError", None, 0, outdir)
            ELSE IF Exists(outdir, name) THEN Result("ok", Some(name), 0, outdir)
            ELSE Result("ok", Some(name), 1, Write(outdir, name, bbox))

\* all_lines[start_idx:end_idx], as 1-indexed line numbers
Slice(n, start_idx, end_idx) ==
    LET stop == IF end_idx < 0 THEN (IF n + end_idx < 0 THEN 0 ELSE n + end_idx)
                ELSE Min(end_idx, n)
    IN Range(start_idx + 1, stop)

TextResolve(node, source, x) ==
    IF source \notin files THEN Result("FileNotFoundError", None, 0, outdir)
    ELSE IF node.loc.lines = None THEN Result("ValueError", None, 0, outdir)
    ELSE LET start_line == Get(node.loc.lines)[1]
             end_line == Get(node.loc.lines)[2]
             start_idx == IF start_line - 1 > 0 THEN start_line - 1 ELSE 0
             name == Name(source.stem, "lines", SafeId(node.id),
                          <<start_line, end_line>>, "suffix")
         IN IF start_idx >= SrcLines THEN Result("ValueError", None, 0, outdir)
            ELSE IF Exists(outdir, name) THEN Result("ok", Some(name), 0, outdir)
            ELSE Result("ok", Some(name), 1,
                        Write(outdir, name, Slice(SrcLines, start_idx, end_line)))

Resolvers == {"document", "video", "audio", "image", "text"}

Dispatch(node, source, x) ==
    CASE node.loc.modality = "document" -> DocumentResolve(node, source, x)
      [] node.loc.modality = "video" -> VideoResolve(node, source, x)
      [] node.loc.modality = "audio" -> AudioResolve(node, source, x)
      [] node.loc.modality = "image" -> ImageResolve(node, source, x)
      [] node.loc.modality = "text" -> TextResolve(node, source, x)

----------------------------------------------------------------------------
(* resolve (client.py) *)

ResolveOutcome(outcome, rid, nid, virtual, output_path, address, available, attempts) ==
    [op |-> "resolve", outcome |-> outcome, rid |-> rid, map |-> None,
     nid |-> nid, virtual |-> virtual, output_path |-> output_path,
     address |-> address, available |-> available, attempts |-> attempts]

\* A resolve that goes on to the resolver whatever virtual is.
EarlyReturn_Never(virtual) == FALSE

\* if virtual: the evidence is returned before any resolver is looked up.
EarlyReturn(virtual) == virtual

Resolve(rid, nid, virtual, x) ==
    /\ IF GetMapResult(rid).outcome # "ok"
       THEN /\ last' = ResolveOutcome(GetMapResult(rid).outcome, rid, nid, virtual, None,
                                      <<>>, <<>>, 0)
            /\ UNCHANGED <<outdir, resolved>>
       ELSE
       LET resource_map == Get(GetMapResult(rid).map)
           found == GetNode(resource_map.nodes, nid)
       IN IF found = None
          THEN /\ last' = ResolveOutcome("ValueError", rid, nid, virtual, None, <<>>,
                                         ListNodeIds(resource_map.nodes), 0)
               /\ UNCHANGED <<outdir, resolved>>
          ELSE
          LET node == NodeAt(resource_map.nodes, Get(found))
              built == BuildAddress(rid, node.loc)
          IN IF ~built.ok
             THEN /\ last' = ResolveOutcome("ValueError", rid, nid, virtual, None, <<>>,
                                            <<>>, 0)
                  /\ UNCHANGED <<outdir, resolved>>
             ELSE IF EarlyReturn(virtual)
             THEN /\ last' = ResolveOutcome("ok", rid, nid, virtual, None, built.address,
                                            <<>>, 0)
                  /\ UNCHANGED <<outdir, resolved>>
             ELSE IF node.loc.modality \notin Resolvers
             THEN /\ last' = ResolveOutcome("ValueError", rid, nid, virtual,
                                            None, <<>>, <<>>, 0)
                  /\ UNCHANGED <<outdir, resolved>>
             ELSE LET r == Dispatch(node, resource_map.source_path, x) IN
                  /\ last' = ResolveOutcome(r.outcome, rid, nid, virtual, r.path,
                                            IF r.outcome = "ok" THEN built.address ELSE <<>>,
                                            <<>>, r.attempts)
                  /\ outdir' = r.out
                  /\ resolved' = IF r.outcome = "ok"
                                 THEN resolved \cup {[rid |-> rid, nid |-> nid,
                                                      path |-> Get(r.path)]}
                                 ELSE resolved
    /\ UNCHANGED <<files, mapper, concurrency_limit, store, sem_value, waiters, ready,
                   pc, call, provided>>

\* get_map, as an operation of its own
GetMap(rid) ==
    /\ last' = Outcome("get_map", GetMapResult(rid).outcome, rid, GetMapResult(rid).map)
    /\ UNCHANGED <<files, mapper, concurrency_limit, store, sem_value, waiters, ready,
                   pc, call, provided, outdir, resolved>>

----------------------------------------------------------------------------
(* Specifications *)

NoOutcome == Outcome("none", "none", NoId, None)

Init ==
    /\ files = TwinFiles
    /\ mapper \in BOOLEAN
    /\ concurrency_limit \in 1..MaxLimit
    /\ store = [k \in RIDs |-> None]
    /\ sem_value = concurrency_limit
    /\ waiters = <<>>
    /\ ready = <<>>
    /\ pc = [t \in Tasks |-> "idle"]
    /\ call = [t \in Tasks |-> None]
    /\ provided = {}
    /\ outdir = {}
    /\ resolved = {}
    /\ last = NoOutcome

Next ==
    \/ \E t \in Tasks, path \in files \cup {Dangling}, rid \in RIDs \cup {NoId} :
          IngestStart(t, path, rid)
    \/ \E t \in Tasks : IngestResume(t)
    \/ \E t \in Tasks, r \in RIDs, nodes \in ProviderTrees : ProviderReturn(t, r, nodes)
    \/ \E t \in Tasks, e \in ProviderErrors : ProviderFail(t, e)

\* One engine, any number of ingest calls interleaving at their suspension
\* points, over byte-identical files.
Spec == Init /\ [][Next]_vars

\* The event loop runs every callback it has scheduled, and every call of
\* the provider returns or raises.
Fairness ==
    \A t \in Tasks :
        /\ WF_vars(IngestResume(t))
        /\ WF_vars(\/ \E r \in RIDs, nodes \in ProviderTrees : ProviderReturn(t, r, nodes)
                   \/ \E e \in ProviderErrors : ProviderFail(t, e))

\* The interleaved ingest calls under that scheduling: calls that name no
\* resource_id, a provider that honours the id it is handed.
InitFair == Init /\ mapper

NextFair ==
    \/ \E t \in Tasks, path \in files : IngestStart(t, path, NoId)
    \/ \E t \in Tasks : IngestResume(t)
    \/ \E t \in Tasks, nodes \in ProviderTrees :
          pc[t] = "inflight" /\ ProviderReturn(t, Get(call[t]).resource_id, nodes)
    \/ \E t \in Tasks, e \in ProviderErrors : ProviderFail(t, e)

SpecFair == InitFair /\ [][NextFair]_vars /\ Fairness

InitSeq ==
    /\ files = AllFiles
    /\ mapper \in BOOLEAN
    /\ concurrency_limit \in 1..MaxLimit
    /\ store = [k \in RIDs |-> None]
    /\ sem_value = concurrency_limit
    /\ waiters = <<>>
    /\ ready = <<>>
    /\ pc = [t \in Tasks |-> "idle"]
    /\ call = [t \in Tasks |-> None]
    /\ provided = {}
    /\ outdir = {}
    /\ resolved = {}
    /\ last = NoOutcome

AllIdle == \A t \in Tasks : pc[t] = "idle"

NextSeq ==
    \/ \E path \in files \cup {Dangling}, rid \in RIDs \cup {NoId} :
          AllIdle /\ IngestStart(1, path, rid)
    \/ \E r \in RIDs, nodes \in ProviderTrees : ProviderReturn(1, r, nodes)
    \/ \E e \in ProviderErrors : ProviderFail(1, e)

\* One engine, each ingest call completing before the next begins, over
\* files of every content.
SpecSeq == InitSeq /\ [][NextSeq]_vars

\* ingest and get_map, one call at a time, over a store that holds any
\* files that are no map.
InitCorrupt ==
    /\ files = AllFiles
    /\ mapper = TRUE
    /\ concurrency_limit = 1
    /\ store \in [RIDs -> {None} \cup {Some(c) : c \in CorruptEntries}]
    /\ sem_value = concurrency_limit
    /\ waiters = <<>>
    /\ ready = <<>>
    /\ pc = [t \in Tasks |-> "idle"]
    /\ call = [t \in Tasks |-> None]
    /\ provided = {}
    /\ outdir = {}
    /\ resolved = {}
    /\ last = NoOutcome

NextCorrupt ==
    \/ \E path \in files \cup {Dangling}, rid \in RIDs \cup {NoId} :
          AllIdle /\ IngestStart(1, path, rid)
    \/ \E r \in RIDs, nodes \in ProviderTrees : ProviderReturn(1, r, nodes)
    \/ \E e \in ProviderErrors : ProviderFail(1, e)
    \/ \E rid \in RIDs : AllIdle /\ GetMap(rid)

SpecCorrupt == InitCorrupt /\ [][NextCorrupt]_vars

----------------------------------------------------------------------------
(* Resolution over a stored map *)

Source == [stem |-> "a", digest |-> 1]

\* One node for each shape of location a strategy tells apart.
ResolveLocs == <<
    Loc("document", Some(<<1, 2>>), None, None, None, None, None),
    Loc("document", Some(<<2, 1>>), None, None, None, None, None),
    Loc("document", None, None, None, None, None, None),
    Loc("document", Some(<<9>>), None, None, None, None, None),
    Loc("document", Some(<<>>), None, None, None, None, None),
    Loc("document", Some(<<2, 9, 1>>), None, None, None, None, None),
    Loc("document", Some(<<0, 2, 2>>), None, None, None, None, None),
    Loc("video", None, None, Some(1), Some(5), None, None),
    Loc("video", None, None, None, None, None, None),
    Loc("video", None, None, Some(4), Some(2), None, None),
    Loc("video", None, None, Some(0), Some(4), None, None),
    Loc("audio", None, None, Some(2), Some(6), None, None),
    Loc("audio", None, None, Some(2), None, None, None),
    Loc("audio", None, None, Some(3), Some(7), None, None),
    Loc("image", None, None, None, None, Some(<<20, 30, 80, 70>>), None),
    Loc("image", None, None, None, None, None, None),
    Loc("image", None, None, None, None, Some(<<80, 20, 20, 80>>), None),
    Loc("image", None, None, None, None, Some(<<20, 30, 80, 120>>), None),
    Loc("image", None, None, None, None, Some(<<21, 30, 80, 70>>), None),
    Loc("image", None, None, None, None, Some(<<21, 30, 24, 70>>), None),
    Loc("image", None, None, None, None, Some(<<23, 30, 22, 70>>), None),
    Loc("text", None, Some(<<1, 2>>), None, None, None, None),
    Loc("text", None, None, None, None, None, None),
    Loc("text", None, Some(<<7, 9>>), None, None, None, None),
    Loc("text", None, Some(<<2, 1>>), None, None, None, None),
    Loc("text", None, Some(<<1, -1>>), None, None, None, None),
    Loc("virtual", None, None, None, None, None, None) >>

Modalities == {"document", "video", "audio", "image", "text", "virtual"}

\* The map of a resource of one type: a node n<i> for each location of
\* that modality, the first three nested.
ResolveTree(modality) ==
    LET locs == SelectSeq(ResolveLocs, LAMBDA l : l.modality = modality) IN
    TreeFrom([i \in 1..Len(locs) |-> IF i \in {2, 3} THEN i - 1 ELSE 0],
             [i \in 1..Len(locs) |-> "n" \o ToString(i)],
             locs)

ResolveIds == {"n" \o ToString(i) : i \in 1..7}

StoredMap(rid, tree) ==
    [resource_id |-> rid, source_path |-> Source, nodes |-> tree,
     metadata |-> Some([source_hash |-> Source.digest,
                        source_size |-> SizeOf(Source.digest)])]

\* Every forest of at most MaxNodes nodes over TreeIds (ids may repeat: no
\* code checks that they do not), each node a one-line text region.
TreeIds == {"s", "s.1", "s_1"}
Unknown == "zz"
TextLine == Loc("text", None, Some(<<1, 1>>), None, None, None, None)
Parents(n) == {p \in [1..n -> 0..n] : \A i \in 1..n : p[i] < i}
Trees ==
    UNION {{TreeFrom(p, ids, [i \in 1..n |-> TextLine]) :
              p \in Parents(n), ids \in [1..n -> TreeIds]} : n \in 0..MaxNodes}

InitStored(tree, present) ==
    /\ files = present
    /\ mapper = TRUE
    /\ concurrency_limit = 1
    /\ store = [k \in RIDs |-> IF k = "a" THEN Some(StoredMap("a", tree)) ELSE None]
    /\ sem_value = concurrency_limit
    /\ waiters = <<>>
    /\ ready = <<>>
    /\ pc = [t \in Tasks |-> "idle"]
    /\ call = [t \in Tasks |-> None]
    /\ provided = {Source.digest}
    /\ outdir = {}
    /\ resolved = {}
    /\ last = NoOutcome

\* The node is one whose resolution runs ffmpeg.
ClipNode(rid, nid) ==
    /\ store[rid] # None
    /\ LET tr == Get(store[rid]).nodes
           found == GetNode(tr, nid)
       IN /\ found # None
          /\ tr.loc[Get(found)].modality \in {"video", "audio"}

\* What ffmpeg does is drawn only where ffmpeg runs.
NextResolve ==
    \/ \E rid \in RIDs, nid \in ResolveIds \cup {Unknown}, virtual \in BOOLEAN :
          Resolve(rid, nid, virtual, FfmpegOk)
    \/ \E rid \in RIDs, nid \in ResolveIds, x \in Ffmpegs \ {FfmpegOk} :
          ClipNode(rid, nid) /\ Resolve(rid, nid, FALSE, x)
    \/ \E rid \in RIDs : GetMap(rid)

NextTree ==
    \/ \E rid \in RIDs, nid \in TreeIds \cup {Unknown}, virtual \in BOOLEAN :
          Resolve(rid, nid, virtual, FfmpegOk)
    \/ \E rid \in RIDs : GetMap(rid)

\* Resolution of the nodes of one stored map, its source present or gone.
InitResolve ==
    \E modality \in Modalities, present \in {{}, {Source}} :
        InitStored(ResolveTree(modality), present)
SpecResolve == InitResolve /\ [][NextResolve]_vars

\* Resolution over every small node tree.
InitTree == \E tree \in Trees : InitStored(tree, {Source})
SpecTree == InitTree /\ [][NextTree]_vars

----------------------------------------------------------------------------
(* build_address and parse_address as operations *)

\* What build_address or parse_address returned or raised.  built_from is
\* the resource_id and Location the parsed address was built from, when it
\* was built.
AddressOutcome(op, outcome, resource_id, location, address, built_from) ==
    [op |-> op, outcome |-> outcome, resource_id |-> resource_id,
     location |-> location, address |-> address, built_from |-> built_from]

Build(resource_id, location) ==
    /\ LET built == BuildAddress(resource_id, location) IN
       last' = AddressOutcome("build", IF built.ok THEN "ok" ELSE "ValueError",
                              <<resource_id>>, location, built.address, None)
    /\ UNCHANGED <<files, mapper, concurrency_limit, store, sem_value, waiters, ready,
                   pc, call, provided, outdir, resolved>>

Parse(address, built_from) ==
    /\ LET parsed == ParseAddress(address) IN
       last' = AddressOutcome("parse", IF parsed.ok THEN "ok" ELSE "ValueError",
                              parsed.resource_id, parsed.location, address, built_from)
    /\ UNCHANGED <<files, mapper, concurrency_limit, store, sem_value, waiters, ready,
                   pc, call, provided, outdir, resolved>>

\* The address build_address returned is parsed.
ParseBuilt ==
    /\ last.op = "build" /\ last.outcome = "ok"
    /\ Parse(last.address,
             Some([resource_id |-> last.resource_id, location |-> last.location]))

\* The Location parse_address returned is built into an address again.
BuildParsed ==
    /\ last.op = "parse" /\ last.outcome = "ok"
    /\ Len(last.resource_id) <= 1
    /\ Build(IF last.resource_id = <<>> THEN "" ELSE last.resource_id[1], last.location)

\* The Locations build_address is given.
MaxPage == 3
MaxPages == 3
PageLists == UNION {[1..n -> 1..MaxPage] : n \in 0..MaxPages}
LineEnds == {-1, 1, 2, 5}
\* half seconds: 0, 0.5, 59.5, 60, 60.5, 192, 230, 3599, 3600, 3661 and -1 s
Times == {0, 1, 119, 120, 121, 384, 460, 7198, 7200, 7322, -2}
\* hundredths
BboxParts == {-10, 0, 5, 25, 120}
AdapterAddresses ==
    {<<"virtual", "://", "x">>, <<"virtual", "://", "x", "#", "pages", "=", "1">>,
     <<"graph", "://", "x">>, <<"note">>}
BuildLocs ==
    {Loc("document", Some(p), None, None, None, None, None) : p \in PageLists}
    \cup {Loc(m, None, None, None, None, None, None) :
             m \in {"document", "text", "video", "image"}}
    \cup {Loc("text", None, Some(<<a, b>>), None, None, None, None) :
             a \in LineEnds, b \in LineEnds}
    \cup {Loc(m, None, None, x, y, None, None) :
             m \in {"video", "audio"},
             x \in {None} \cup {Some(t) : t \in Times},
             y \in {None} \cup {Some(t) : t \in Times}}
    \cup {Loc("image", None, None, None, None, Some(b), None) :
             b \in [1..4 -> BboxParts]}
    \cup {Loc("virtual", None, None, None, None, None, v) :
             v \in {None} \cup {Some(a) : a \in AdapterAddresses}}
    \cup {Loc("document", Some(<<1, 2>>), Some(<<3, 4>>), None, None, None, None),
          Loc("video", Some(<<2>>), None, Some(2), Some(4), None, None)}

\* The addresses parse_address is given, beside those build_address writes.
Addresses ==
    {<<"text", "://", "a", "#", "lines", "=", "3", "-", "7">>,
     <<"text", "://", "a", "#", "lines", "=", "1", ",", "2", ",", "5">>,
     <<"text", "://", "a", "#", "lines", "=", "5">>,
     <<"text", "://", "a", "#", "lines", "=", "1", ",", "x">>,
     <<"text", "://", "a", "#", "lines", "=", "1", ",", "2", "-", "5">>,
     <<"text", "://", "a">>,
     <<"doc", "://", "a", "#", "pages", "=", "7">>,
     <<"doc", "://", "a", "#", "pages", "=", "5", "-", "3">>,
     <<"doc", "://", "a", "#", "t", "=", "1", "-", "2">>,
     <<"doc", "://", "a", "#", "pages", "=", "1", "-", "2", "&", "lines", "=", "3", "-", "4">>,
     <<"doc", "://", "a", "#", "pages", "=", "1", "&", "pages", "=", "2">>,
     <<"doc", "://", "a", "#", "p">>,
     <<"doc", "://", "a", "#">>,
     <<"doc", "://", "#", "pages", "=", "1">>,
     <<"video", "://", "a", "#", "t", "=", "5">>,
     <<"video", "://", "a", "#", "t", "=", "01", ":", "02", ":", "03", "-", "90", ".", "5">>,
     <<"video", "://", "a", "#", "t", "=", "1", ":", "2", ":", "3", ":", "4", "-", "5">>,
     <<"audio", "://", "a", "#", "bbox", "=", "0", ".", "2", ",", "0", ".", "3", ",",
       "0", ".", "8", ",", "0", ".", "7">>,
     <<"image", "://", "a", "#", "bbox", "=", "0", ".", "2", ",", "0", ".", "3">>,
     <<"image", "://", "a", "#", "bbox", "=", "0", ".", "2", ",", "0", ".", "3", ",",
       "0", ".", "8", ",", "1", ".", "5">>,
     <<"virtual", "://", "a", "#", "pages", "=", "1">>,
     <<"ftp", "://", "a">>,
     <<"a">>}

\* The call to come: build_address of a Location, or parse_address of an
\* address.
Given ==
    {AddressOutcome("location", "none", <<resource_id>>, location, <<>>, None) :
        resource_id \in RIDs, location \in BuildLocs}
    \cup {AddressOutcome("address", "none", <<>>, NoLocation, address, None) :
             address \in Addresses}

InitAddress ==
    /\ files = {}
    /\ mapper = TRUE
    /\ concurrency_limit = 1
    /\ store = [k \in RIDs |-> None]
    /\ sem_value = concurrency_limit
    /\ waiters = <<>>
    /\ ready = <<>>
    /\ pc = [t \in Tasks |-> "idle"]
    /\ call = [t \in Tasks |-> None]
    /\ provided = {}
    /\ outdir = {}
    /\ resolved = {}
    /\ last \in Given

NextAddress ==
    \/ last.op = "location" /\ Build(last.resource_id[1], last.location)
    \/ ParseBuilt
    \/ last.op = "address" /\ Parse(last.address, None)
    \/ BuildParsed

\* build_address and parse_address over small Locations and addresses.
SpecAddress == InitAddress /\ [][NextAddress]_vars

----------------------------------------------------------------------------
(* Ingest with a provider that answers with any small node tree *)

InitProvide ==
    /\ files = {Source}
    /\ mapper = TRUE
    /\ concurrency_limit = 1
    /\ store = [k \in RIDs |-> None]
    /\ sem_value = concurrency_limit
    /\ waiters = <<>>
    /\ ready = <<>>
    /\ pc = [t \in Tasks |-> "idle"]
    /\ call = [t \in Tasks |-> None]
    /\ provided = {}
    /\ outdir = {}
    /\ resolved = {}
    /\ last = NoOutcome

\* The provider honours the resource_id it is handed.
NextProvide ==
    \/ \E rid \in RIDs \cup {NoId} : AllIdle /\ IngestStart(1, Source, rid)
    \/ \E nodes \in Trees :
          call[1] # None /\ ProviderReturn(1, Get(call[1]).resource_id, nodes)
    \/ \E rid \in RIDs : GetMap(rid)

\* One engine ingesting one file and reading the store back.
SpecProvide == InitProvide /\ [][NextProvide]_vars

----------------------------------------------------------------------------
(* Claims *)

InFlight == {t \in Tasks : pc[t] = "inflight"}
Requests == RIDs \cup {NoId}
Miss(path) == mapper /\ path.digest # Missing /\ FindMapByHash(path.digest) = {}
Stored == {k \in RIDs : store[k] # None}
HashOf(k) == Get(Get(store[k]).metadata).source_hash
\* Permits that are free or already handed to a woken waiter.
Permits == sem_value + Len(ready)

C3_AtMostOncePerDigest ==
    [][\A t \in Tasks, r \in RIDs, nodes \in ProviderTrees :
          ProviderReturn(t, r, nodes) => Get(call[t]).path.digest \notin provided]_vars

\* C4: no two entries of the store carry the same metadata digest.
C4_OneEntryPerDigest ==
    \A k1, k2 \in Stored : HashOf(k1) = HashOf(k2) => k1 = k2

\* C5: the provider calls in flight never outnumber the pool width.
C5_PoolWidth == Cardinality(InFlight) <= concurrency_limit

C5_Witness ==
    /\ Cardinality(InFlight) = concurrency_limit
    /\ Len(waiters) > 0

\* C6: a call that reaches the gate (it has its arguments for the provider)
\* and finds the pool full is queued, not rejected; a queued call leaves the
\* queue only by being admitted, and the call admitted is the one that has
\* waited longest.
C6_FifoAdmission ==
    [][/\ \A t \in Tasks :
             (pc[t] = "idle" /\ call'[t] # None /\ Locked)
             => /\ pc'[t] = "waiting"
                /\ waiters' = Append(waiters, t)
                /\ last' = last
       /\ \A t \in Tasks :
             pc[t] = "waiting"
             => /\ pc'[t] \in {"waiting", "inflight"}
                /\ pc'[t] = "inflight" => t = Head(waiters)
       /\ \A i \in 1..Len(ready') : ready'[i] = waiters'[i]]_vars

C6_Witness ==
    /\ Len(waiters) >= 2
    /\ ready # <<>>
    /\ Head(ready) = Head(waiters)

\* C7: when generate_map fails, ingest fails with the provider's error, the
\* store is untouched and the slot goes back to the pool.
C7_ProviderFailure ==
    [][\A t \in Tasks, e \in ProviderErrors :
          ProviderFail(t, e)
          => /\ last'.op = "ingest" /\ last'.outcome = e /\ last'.map = None
             /\ store' = store
             /\ pc'[t] = "idle"
             /\ Permits' = Permits + 1]_vars

C7_Witness ==
    /\ last.outcome \in ProviderErrors
    /\ ready # <<>>
    /\ Stored = {}

\* C8: after a miss that succeeds the store holds the returned map under its
\* resource_id, with the file's digest and size in its metadata; get_map of
\* that id returns it and the same content is a cache hit.  Without a
\* requested id the provider is handed the file's stem.
C8_MissPersists ==
    [][/\ \A t \in Tasks, r \in RIDs, nodes \in ProviderTrees :
             ProviderReturn(t, r, nodes)
             => /\ last'.op = "ingest" /\ last'.outcome = "ok" /\ last'.map # None
                /\ LET m == Get(last'.map)
                       h == Get(call[t]).path.digest
                   IN /\ m.resource_id = r
                      /\ store'[m.resource_id] = Some(m)
                      /\ m.metadata = Some([source_hash |-> h, source_size |-> SizeOf(h)])
                      /\ GetMapIn(store', m.resource_id) = [outcome |-> "ok", map |-> Some(m)]
                      /\ m.resource_id \in FindIn(store', h)
       /\ \A t \in Tasks, path \in files :
             (IngestStart(t, path, NoId) /\ Miss(path))
             => Get(call'[t]).resource_id = path.stem]_vars

C8_Witness ==
    /\ last.op = "ingest" /\ last.outcome = "ok"
    /\ store[Get(last.map).resource_id] = last.map
    /\ Get(last.map).resource_id \in FindMapByHash(HashOf(Get(last.map).resource_id))

\* C9: a stored entry is never changed or replaced.
C9_StoredEntryImmutable ==
    [][\A k \in RIDs : store[k] # None => store'[k] = store[k]]_vars

IdsOf(tr) == {tr.id[i] : i \in 1..tr.n}
Elems(seq) == {seq[i] : i \in 1..Len(seq)}
TreeOf(rid) == Get(store[rid]).nodes

\* C1: resolving a node that an earlier resolve extracted returns the same
\* output path without any extraction attempt and without touching the
\* output directory.
C1_ResolveIdempotent ==
    [][(/\ last'.op = "resolve" /\ ~last'.virtual
        /\ \E e \in resolved : e.rid = last'.rid /\ e.nid = last'.nid)
       => /\ last'.outcome = "ok"
          /\ \E e \in resolved :
                e.rid = last'.rid /\ e.nid = last'.nid /\ last'.output_path = Some(e.path)
          /\ last'.attempts = 0
          /\ outdir' = outdir]_vars

\* C10: resolve of a node id that no node of the stored map carries fails
\* with the not-found error (in the code a ValueError whose message lists
\* the available nodes) listing the id of every node of the tree, nested
\* ones included, and creates no artifact.
C10_UnknownNodeListsAll ==
    [][(/\ last'.op = "resolve"
        /\ store[last'.rid] # None
        /\ last'.nid \notin IdsOf(TreeOf(last'.rid)))
       => /\ last'.outcome = "ValueError"
          /\ Elems(last'.available) = IdsOf(TreeOf(last'.rid))
          /\ Len(last'.available) = TreeOf(last'.rid).n
          /\ last'.output_path = None
          /\ outdir' = outdir /\ resolved' = resolved]_vars

C10_Witness ==
    /\ last.op = "resolve" /\ last.outcome = "ValueError"
    /\ store[last.rid] # None
    /\ last.nid \notin IdsOf(TreeOf(last.rid))
    /\ \E i \in 1..TreeOf(last.rid).n : TreeOf(last.rid).children[i] # <<>>
    /\ Len(last.available) = TreeOf(last.rid).n
    /\ outdir # {}

\* The node resolve finds for the id it was last given.
LastNode == NodeAt(TreeOf(last.rid), Get(GetNode(TreeOf(last.rid), last.nid)))

\* C11 as claimed: a virtual resolve of an existing node returns the built
\* address and no output path, runs no resolver and leaves the output
\* directory and the store as they were, whatever the node's location.
C11_VirtualAlwaysReturns ==
    [][(/\ last'.op = "resolve" /\ last'.virtual
        /\ store[last'.rid] # None
        /\ GetNode(TreeOf(last'.rid), last'.nid) # None)
       => /\ last'.outcome = "ok"
          /\ last'.output_path = None
          /\ last'.attempts = 0
          /\ outdir' = outdir /\ store' = store /\ resolved' = resolved]_vars

\* C11, amended: a virtual resolve of an existing node whose location
\* build_address accepts returns the built address and no output path, runs
\* no resolver and leaves the output directory and the store as they were,
\* for every modality and also when the source file is gone.
C11_VirtualResolve ==
    [][(/\ last'.op = "resolve" /\ last'.virtual
        /\ store[last'.rid] # None
        /\ GetNode(TreeOf(last'.rid), last'.nid) # None
        /\ BuildAddress(last'.rid, LastNode'.loc).ok)
       => /\ last'.outcome = "ok"
          /\ last'.output_path = None
          /\ last'.address = BuildAddress(last'.rid, LastNode'.loc).address
          /\ last'.attempts = 0
          /\ outdir' = outdir /\ store' = store /\ resolved' = resolved]_vars

C11_Witness ==
    /\ last.op = "resolve" /\ last.virtual /\ last.outcome = "ok"
    /\ files = {}
    /\ LastNode.loc.modality = "video"
    /\ last.address # <<>>

\* The region a resolved node denotes: the source file and the location.
RegionOf(e) ==
    [source |-> Get(store[e.rid]).source_path,
     loc |-> NodeAt(TreeOf(e.rid), Get(GetNode(TreeOf(e.rid), e.nid))).loc]

\* C12: resolve calls for different regions never return the same output
\* path.
C12_OnePathPerRegion ==
    \A e1, e2 \in resolved : e1.path = e2.path => RegionOf(e1) = RegionOf(e2)

\* What the address last parsed was built from.
BuiltFrom == Get(last.built_from)
Sorted(seq) == SortSeq(seq, LAMBDA a, b : a < b)
Positive(pages) == pages # <<>> /\ \A i \in 1..Len(pages) : pages[i] > 0

\* C13: for a resource_id free of the address delimiters and a Location
\* with a non-empty list of positive pages, parsing the built address
\* succeeds and gives back the resource_id and the sorted pages.
C13_PagesRoundTrip ==
    (/\ last.op = "parse" /\ last.built_from # None
     /\ BuiltFrom.location.pages # None
     /\ Positive(Get(BuiltFrom.location.pages)))
    => /\ last.outcome = "ok"
       /\ last.resource_id = BuiltFrom.resource_id
       /\ last.location.pages = Some(Sorted(Get(BuiltFrom.location.pages)))

C13_Witness ==
    /\ last.op = "parse" /\ last.outcome = "ok" /\ last.built_from # None
    /\ BuiltFrom.location.pages = Some(<<3, 1, 2>>)
    /\ last.location.pages = Some(<<1, 2, 3>>)

\* C14: parsing the address built from a Location succeeds and gives back
\* the resource_id, the modality and every populated field (the pages
\* sorted).
C14_RoundTrip ==
    (last.op = "parse" /\ last.built_from # None)
    => /\ last.outcome = "ok"
       /\ last.resource_id = BuiltFrom.resource_id
       /\ last.location.modality = BuiltFrom.location.modality
       /\ BuiltFrom.location.pages # None
          => last.location.pages = Some(Sorted(Get(BuiltFrom.location.pages)))
       /\ BuiltFrom.location.lines # None
          => last.location.lines = BuiltFrom.location.lines
       /\ BuiltFrom.location.start # None
          => last.location.start = BuiltFrom.location.start
       /\ BuiltFrom.location.end # None
          => last.location.end = BuiltFrom.location.end
       /\ BuiltFrom.location.bbox # None
          => last.location.bbox = BuiltFrom.location.bbox
       /\ BuiltFrom.location.virtual_address # None
          => last.location.virtual_address = BuiltFrom.location.virtual_address

\* The list is every integer from its minimum to its maximum, once each.
IsRun(pages) ==
    /\ Cardinality(Elems(pages)) = Len(pages)
    /\ \A p \in Elems(pages), q \in Elems(pages) : q - p + 1 <= Len(pages)
Least(pages) == CHOOSE p \in Elems(pages) : \A q \in Elems(pages) : p <= q
Greatest(pages) == CHOOSE p \in Elems(pages) : \A q \in Elems(pages) : q <= p
CommaList(pages) ==
    [i \in 1..(2 * Len(pages) - 1) |->
        IF i % 2 = 1 THEN ToString(pages[(i + 1) \div 2]) ELSE ","]

\* C15: of a non-empty list of (positive) pages build_address writes
\* pages=a-b exactly when the sorted list is every integer from a to b once
\* each, and the comma-joined sorted list otherwise, whatever the order of
\* the list given.
C15_PagesRendering ==
    (/\ last.op = "build"
     /\ last.location.modality = "document"
     /\ last.location.pages # None
     /\ Positive(Get(last.location.pages))
     /\ last.location.lines = None)
    => LET pages == Get(last.location.pages) IN
       /\ last.outcome = "ok"
       /\ last.address =
             <<"doc", "://">> \o last.resource_id \o <<"#", "pages", "=">> \o
             (IF IsRun(pages)
              THEN <<ToString(Least(pages)), "-", ToString(Greatest(pages))>>
              ELSE CommaList(Sorted(pages)))

C15_Witness ==
    /\ last.op = "build" /\ last.outcome = "ok"
    /\ last.location.pages = Some(<<3, 1, 3>>)
    /\ last.address = <<"doc", "://", "a", "#", "pages", "=", "1", ",", "3", ",", "3">>

Colons(side) == Cardinality({i \in 1..Len(side) : side[i] = ":"})

\* t half seconds are rendered as the claim says: HH:MM:SS from 3600 s on,
\* MM:SS from 60 s on, bare seconds below, no decimal point in a whole
\* number of seconds, and parsed back to t.
RenderedAsClaimed(side, t) ==
    /\ Colons(side) = (IF t >= 2 * 3600 THEN 2 ELSE IF t >= 2 * 60 THEN 1 ELSE 0)
    /\ t % 2 = 0 => ~Has(side, ".")
    /\ ParseTime(side) = Parsed(t)

\* C16: build_address renders each side of a time interval (of non-negative
\* times) as HH:MM:SS, MM:SS or bare seconds by its magnitude, an integral
\* value without a decimal point, and _parse_time of the side gives the
\* value back.
C16_TimeRendering ==
    (/\ last.op = "build"
     /\ last.location.modality \in {"video", "audio"}
     /\ last.location.pages = None
     /\ last.location.start # None /\ last.location.end # None
     /\ Get(last.location.start) >= 0 /\ Get(last.location.end) >= 0)
    => /\ last.outcome = "ok"
       /\ SubSeq(last.address, 1, 6) =
             <<last.location.modality, "://">> \o last.resource_id \o <<"#", "t", "=">>
       /\ LET value == SubSeq(last.address, 7, Len(last.address)) IN
          /\ Has(value, "-")
          /\ RenderedAsClaimed(SplitFirst(value, "-")[1], Get(last.location.start))
          /\ RenderedAsClaimed(SplitFirst(value, "-")[2], Get(last.location.end))

\* C17: parse_address of an address whose fragment is lines=<value> gives a
\* populated pair: (a, b) of a range a-b, (first, last) of a comma list of
\* numbers, (v, v) of a single number v.
C17_LinesAlwaysPair ==
    (/\ last.op = "parse"
     /\ Len(last.address) >= 7
     /\ SubSeq(last.address, 4, 6) = <<"#", "lines", "=">>
     /\ ~Has(last.address, "&"))
    => LET value == SubSeq(last.address, 7, Len(last.address))
           items == Split(value, ",")
       IN /\ (Len(value) = 3 /\ IsDigits(value[1]) /\ value[2] = "-" /\ IsDigits(value[3]))
             => /\ last.outcome = "ok"
                /\ last.location.lines =
                      Some(<<DigitsValue(value[1]), DigitsValue(value[3])>>)
          /\ (\A i \in 1..Len(items) : Len(items[i]) = 1 /\ IsDigits(items[i][1]))
             => /\ last.outcome = "ok"
                /\ last.location.lines =
                      Some(<<DigitsValue(items[1][1]), DigitsValue(items[Len(items)][1])>>)

\* C18: build_address fails for every Location whose bbox has a component
\* outside [0, 1] (0..100 hundredths).
C18_BboxRangeChecked ==
    (/\ last.op = "build"
     /\ last.location.bbox # None
     /\ \E i \in 1..4 : Get(last.location.bbox)[i] < 0 \/ Get(last.location.bbox)[i] > 100)
    => last.outcome = "ValueError"

\* The payload variants a Location has populated, and the one its modality
\* calls for.
Populated(loc) ==
    {v \in {"pages", "lines", "interval", "bbox", "virtual_address"} :
        \/ v = "pages" /\ loc.pages # None
        \/ v = "lines" /\ loc.lines # None
        \/ v = "interval" /\ (loc.start # None \/ loc.end # None)
        \/ v = "bbox" /\ loc.bbox # None
        \/ v = "virtual_address" /\ loc.virtual_address # None}
VariantOf(modality) ==
    CASE modality = "document" -> "pages"
      [] modality = "text" -> "lines"
      [] modality \in {"video", "audio"} -> "interval"
      [] modality = "image" -> "bbox"
      [] modality = "virtual" -> "virtual_address"

\* C19: a Location parse_address returns has exactly one payload variant
\* populated, the one of its modality.
C19_OnePayloadVariant ==
    (last.op = "parse" /\ last.outcome = "ok")
    => /\ Populated(last.location) = {VariantOf(last.location.modality)}
       /\ last.location.start = None <=> last.location.end = None

UniqueIds(tr) == Cardinality(IdsOf(tr)) = tr.n

\* C20: in every map ingest persists or returns and in every map get_map
\* returns, no two nodes of the tree share an id.
C20_UniqueNodeIds ==
    /\ \A k \in Stored : UniqueIds(TreeOf(k))
    /\ (last.op \in {"ingest", "get_map"} /\ last.map # None)
       => UniqueIds(Get(last.map).nodes)

\* The last call was a resolve of a video or audio node that went as far as
\* running ffmpeg: it returned a file that was not there before, or, for video
\* (which never looks for an earlier artifact), any file, or ffmpeg failed.
Extracted ==
    /\ last'.op = "resolve" /\ ~last'.virtual
    /\ ClipNode(last'.rid, last'.nid)
    /\ \/ last'.outcome = "CalledProcessError"
       \/ /\ last'.outcome = "ok"
          /\ \/ LastNode'.loc.modality = "video"
             \/ ~Exists(outdir, Get(last'.output_path))

\* C21: a video or audio resolve that extracts runs ffmpeg once when the
\* stream copy succeeds and twice when it fails, never a third time; it
\* returns the output path, holding the clip of the attempt that succeeded,
\* exactly when one of the two attempts succeeds, and fails otherwise.
C21_TwoAttempts ==
    [][\A x \in Ffmpegs :
          (Extracted /\ Resolve(last'.rid, last'.nid, FALSE, x))
          => /\ last'.attempts = (IF x.copy THEN 1 ELSE 2)
             /\ (last'.outcome = "ok") <=> (x.copy \/ x.reencode)
             /\ last'.outcome = "ok" =>
                   /\ last'.output_path # None
                   /\ \E f \in outdir' :
                         /\ f.name = Get(last'.output_path)
                         /\ f.content[3] = (IF x.copy THEN 1 ELSE 0)
             /\ last'.outcome # "ok" => last'.output_path = None]_vars

C21_Witness ==
    /\ last.op = "resolve" /\ ~last.virtual /\ last.outcome = "ok"
    /\ last.attempts = 2
    /\ ClipNode(last.rid, last.nid)
    /\ \E f \in outdir : f.name = Get(last.output_path) /\ f.content[3] = 0

\* The location lacks what its modality's strategy extracts by.
LacksPayload(loc) ==
    CASE loc.modality = "document" -> loc.pages = None
      [] loc.modality \in {"video", "audio"} -> loc.start = None \/ loc.end = None
      [] loc.modality = "image" -> loc.bbox = None
      [] loc.modality = "text" -> loc.lines = None
      [] OTHER -> FALSE

\* C22: a physical resolve of a node whose location lacks its modality's
\* payload fails with the validation error (a ValueError in the code) and
\* leaves the output directory as it was, whether the source file exists or
\* not.
C22_MissingPayloadFirst ==
    [][(/\ last'.op = "resolve" /\ ~last'.virtual
        /\ store[last'.rid] # None
        /\ GetNode(TreeOf(last'.rid), last'.nid) # None
        /\ LacksPayload(LastNode'.loc))
       => /\ last'.outcome = "ValueError"
          /\ outdir' = outdir]_vars

\* A box (in hundredths) with a component outside [0,1] or with no width or
\* no height.
InvalidBbox(bbox) ==
    \/ \E i \in 1..4 : bbox[i] < 0 \/ bbox[i] > 100
    \/ bbox[1] >= bbox[3]
    \/ bbox[2] >= bbox[4]

RECURSIVE Visited(_, _)
Visited(tr, nodes) ==
    IF nodes = <<>> THEN <<>>
    ELSE <<Head(nodes)>> \o Visited(tr, tr.children[Head(nodes)])
                         \o Visited(tr, Tail(nodes))

\* C24: for the map and the id of a resolve call, list_node_ids() gives the
\* ids of the nodes in pre-order, get_node(id) is none exactly when id is not
\* in that list, and otherwise it is the node at the first position of id in
\* that list.
C24_GetNodeFirstInPreOrder ==
    (last.op = "resolve" /\ store[last.rid] # None) =>
        LET tr == TreeOf(last.rid)
            order == Visited(tr, tr.roots)
            ids == ListNodeIds(tr)
            found == GetNode(tr, last.nid)
        IN /\ Len(ids) = Len(order)
           /\ \A i \in 1..Len(ids) : ids[i] = tr.id[order[i]]
           /\ (found = None) <=> (\A i \in 1..Len(ids) : ids[i] # last.nid)
           /\ found # None =>
                 \E i \in 1..Len(ids) :
                    /\ ids[i] = last.nid
                    /\ \A j \in 1..(i - 1) : ids[j] # last.nid
                    /\ Get(found) = order[i]

\* resolve found a node whose id a node created earlier, but visited later,
\* carries too.
C24_Witness ==
    /\ last.op = "resolve" /\ last.outcome = "ok"
    /\ store[last.rid] # None
    /\ LET tr == TreeOf(last.rid)
           found == GetNode(tr, last.nid)
       IN /\ found # None
          /\ \E k \in 1..tr.n : k < Get(found) /\ tr.id[k] = last.nid

\* C25: a physical resolve of a document node with a page list, its source
\* there and no artifact by its name yet, writes under that name exactly the
\* requested pages that lie in 1..N, in the requested order, and returns the
\* name; when no requested page lies in 1..N it fails with the extraction
\* error (a ValueError in the code) and writes nothing.
C25_PagesKeptInOrder ==
    [][(/\ last'.op = "resolve" /\ ~last'.virtual
        /\ store[last'.rid] # None
        /\ GetNode(TreeOf(last'.rid), last'.nid) # None
        /\ LastNode'.loc.modality = "document"
        /\ LastNode'.loc.pages # None
        /\ Get(store[last'.rid]).source_path \in files
        /\ ~Exists(outdir, Name(Get(store[last'.rid]).source_path.stem, "pages", "",
                                Get(LastNode'.loc.pages), "pdf")))
       => LET pages == Get(LastNode'.loc.pages)
              name == Name(Get(store[last'.rid]).source_path.stem, "pages", "",
                           pages, "pdf")
              kept == SelectSeq(pages, LAMBDA p : p \in 1..SrcPages)
          IN IF kept # <<>>
             THEN /\ last'.outcome = "ok"
                  /\ last'.output_path = Some(name)
                  /\ outdir' = outdir \cup {[name |-> name, content |-> kept]}
             ELSE /\ last'.outcome = "ValueError"
                  /\ last'.output_path = None
                  /\ outdir' = outdir]_vars

\* Pages 2, 9, 1 of a two-page document were extracted as pages 2, 1.
C25_Witness ==
    /\ last.op = "resolve" /\ ~last.virtual /\ last.outcome = "ok"
    /\ last.attempts = 1
    /\ store[last.rid] # None
    /\ GetNode(TreeOf(last.rid), last.nid) # None
    /\ LastNode.loc.pages = Some(<<2, 9, 1>>)
    /\ \E f \in outdir : f.name = Get(last.output_path) /\ f.content = <<2, 1>>

\* C26: a physical resolve of a text node with line range (s, e), its source
\* of n lines there and no artifact by its name yet, fails and writes
\* nothing when s > n, and otherwise writes under that name exactly the
\* lines max(s,1)..min(e,n) of the source, a non-empty range.
C26_LinesClamped ==
    [][(/\ last'.op = "resolve" /\ ~last'.virtual
        /\ store[last'.rid] # None
        /\ GetNode(TreeOf(last'.rid), last'.nid) # None
        /\ LastNode'.loc.modality = "text"
        /\ LastNode'.loc.lines # None
        /\ Get(store[last'.rid]).source_path \in files
        /\ ~Exists(outdir, Name(Get(store[last'.rid]).source_path.stem, "lines",
                                SafeId(last'.nid), Get(LastNode'.loc.lines), "suffix")))
       => LET s == Get(LastNode'.loc.lines)[1]
              e == Get(LastNode'.loc.lines)[2]
              lo == IF s > 1 THEN s ELSE 1
              hi == Min(e, SrcLines)
              name == Name(Get(store[last'.rid]).source_path.stem, "lines",
                           SafeId(last'.nid), <<s, e>>, "suffix")
          IN IF s > SrcLines
             THEN /\ last'.outcome # "ok"
                  /\ outdir' = outdir
             ELSE /\ last'.outcome = "ok"
                  /\ last'.output_path = Some(name)
                  /\ lo <= hi
                  /\ outdir' = outdir \cup {[name |-> name, content |-> Range(lo, hi)]}]_vars

Corrupt(k) == store[k] # None /\ ~IsMap(Get(store[k]))

\* C27: with files that are no map in the store, ingest returns the stored
\* map that carries the content's digest when there is one and otherwise
\* goes on to the provider, in both cases without touching the store; when
\* the provider returns, its map is persisted and every file that is no map
\* is left as it was.
C27_CorruptTolerated ==
    [][/\ \A path \in files, rid \in Requests :
             (AllIdle /\ IngestStart(1, path, rid))
             => /\ store' = store
                /\ IF \E k \in RIDs : /\ store[k] # None /\ ~Corrupt(k)
                                      /\ HashOf(k) = path.digest
                   THEN /\ last'.op = "ingest" /\ last'.outcome = "hit"
                        /\ last'.map # None
                        /\ IsMap(Get(last'.map))
                        /\ store[Get(last'.map).resource_id] = last'.map
                        /\ HashOf(Get(last'.map).resource_id) = path.digest
                        /\ call'[1] = None
                   ELSE call'[1] # None
       /\ (pc[1] = "inflight" /\ last'.op = "ingest" /\ last'.outcome = "ok")
             => /\ store'[Get(last'.map).resource_id] = last'.map
                /\ \A k \in RIDs : Corrupt(k) => store'[k] = store[k]]_vars

\* C28: build_address of the resource_id and Location that parse_address
\* returned succeeds.
C28_BuildAcceptsParsed ==
    [][(last.op = "parse" /\ last.outcome = "ok" /\ last'.op = "build")
       => last'.outcome = "ok"]_vars

\* C29: a resolve call that fails adds no file to the output directory and
\* changes none, so no later resolve finds an artifact it left behind.
C29_FailedResolveLeavesNothing ==
    [][(last'.op = "resolve" /\ last'.outcome # "ok") => outdir' \subseteq outdir]_vars

\* C30: under fair scheduling and a provider whose every call returns or
\* raises, every ingest call that has suspended, waiting for a slot or for
\* the provider, completes.
C30_EveryIngestCompletes ==
    \A t \in Tasks : (pc[t] # "idle") ~> (pc[t] = "idle")

\* Two calls wait for a slot of a full pool.
C30_Witness ==
    /\ sem_value = 0
    /\ Len(waiters) >= 2
    /\ \E t \in Tasks : pc[t] = "waiting" /\ ~InReady(t, ready)

====
